---- MODULE Spec2Model ----
(***************************************************************************)
(* Model of the probing / alerting pipeline of the uptime monitor          *)
(* (src/cronJobs/60minute.js): the hourly tick performCronJob60, the       *)
(* per-monitor worker it maps over the due set, and the un-awaited         *)
(* sendAlert.  Time is counted in minutes.  An await on the database is a  *)
(* step boundary: an action is the database operation the await waits for, *)
(* followed by the synchronous code up to the next await.  The exchange    *)
(* with the agents (primary probe, failover, verification) is one step:    *)
(* the agents hold no state of this program.                               *)
(***************************************************************************)
EXTENDS Integers, Sequences, FiniteSets, TLC

VARIABLES now, agents, monitors, events, alerts, currentUrlIndex, tick, worker, alertProc,
          request, server, account

vars == <<now, agents, monitors, events, alerts, currentUrlIndex, tick, worker, alertProc,
          request, server, account>>

(* ---------------------------------------------------------------------- *)
(* Bounds of the model                                                     *)
(* ---------------------------------------------------------------------- *)
MaxTicks == 2
MaxNow == 61
MaxEvents == 4
\* a firing fetches no further page once it has started this many workers
MaxStarted == 4
\* 2FA login requests and 2FA codes issued in a run
MaxLogins == 2
MaxCodes == 2
\* minutes a query of the REST handlers may take
MaxWait == 1
\* REST requests served in a run
MaxRequests == 1
\* hours the clock may jump ahead, counted from 0
MaxHours == 2
\* the page size of the due-set loop, scaled down with the number of monitors
\* of the model (the source has 100)
pageSize == 2

(* ---------------------------------------------------------------------- *)
(* Program constants                                                       *)
(* ---------------------------------------------------------------------- *)
\* 60 * 60 * 1000 ms, in minutes
Window == 60
\* frequency: 60 of the due-set query
BucketFrequency == 60

\* agenda1, agenda5, agenda10, agenda30, agenda60 and the jobs they define
NumAgendas == 5
JobNames == {"performCronJob1", "performCronJob5", "performCronJob10",
             "performCronJob30", "performCronJob60"}

\* minutes of a day: durationInDays * 24 * 60 * 60 * 1000 ms
Day == 1440
\* the buckets of the five jobs, and the enum of alertFrequency
Frequencies == {1, 5, 10, 30, 60}
AlertFrequencies == {1, 5, 10, 20, 30, 60, 1440}

Monitors == {"m1", "m2", "m3"}
Ticks == 1..MaxTicks
Kinds == {"web", "ping", "port"}
AgentUrls == <<"A1", "A2">>
NULL == "null"

\* an optional date is the empty set (null / undefined) or a singleton
NoDate == {}
Date(t) == {t}

(* ---------------------------------------------------------------------- *)
(* Agent responses                                                         *)
(* ---------------------------------------------------------------------- *)
\* response.data of an agent: each field is the positive string, the
\* adverse string, or absent (NULL)
NoData == [availability |-> NULL, ping |-> NULL, port |-> NULL]

\* what an agent answers to a probe of the given kind: the field of that kind
\* positive, adverse or absent, the other two fields absent
ResponseData(type) ==
  IF type = "web" THEN {[NoData EXCEPT !.availability = v] : v \in {"Up", "Down", NULL}}
  ELSE IF type = "ping" THEN {[NoData EXCEPT !.ping = v] : v \in {"Reachable", "Unreachable", NULL}}
  ELSE {[NoData EXCEPT !.port = v] : v \in {"Open", "Closed", NULL}}

(* ---------------------------------------------------------------------- *)
(* Pure helpers of the worker                                              *)
(* ---------------------------------------------------------------------- *)
\* the field of an event that is authoritative for a monitor kind
Authoritative(type, e) ==
  IF type = "web" THEN e.availability
  ELSE IF type = "ping" THEN e.ping
  ELSE e.port

\* indices of the stored events of monitor m
EventsOf(m) == {i \in 1..Len(events) : events[i].monitor = m}

\* UptimeEvent.findOne({monitor}).sort({timestamp: -1}): an event of m with
\* the greatest timestamp (which one, among equal timestamps, is not
\* determined), 0 when m has no event
LatestEvents(m) ==
  IF EventsOf(m) = {} THEN {0}
  ELSE {i \in EventsOf(m) : \A j \in EventsOf(m) : events[j].timestamp <= events[i].timestamp}

\* lastUptimeStatus: lastUptimeEvent?.<field> || "Unknown"
lastUptimeStatusOf(type, last) ==
  IF last = 0 THEN "Unknown" ELSE Authoritative(type, events[last])

\* monitorUrlsFromDB.find(urlObj => urlObj.url !== selectedUrl)
differentAgentUrl(urls, selectedUrl) ==
  IF \E i \in 1..Len(urls) : urls[i] # selectedUrl
  THEN urls[CHOOSE i \in 1..Len(urls) :
              /\ urls[i] # selectedUrl
              /\ \A j \in 1..(i - 1) : urls[j] = selectedUrl]
  ELSE NULL

\* the save flag: the raw response field of the monitor's kind is compared
\* with lastUptimeStatus
SaveDecision(type, data, lastStatus) ==
  IF type = "web" THEN data.availability # lastStatus
  ELSE IF type = "ping" THEN data.ping # lastStatus
  ELSE data.port # lastStatus

\* new UptimeEvent({...}): the three result fields are normalised
Candidate(m, data, url) ==
  [monitor |-> m,
   timestamp |-> now,
   endTime |-> NoDate,
   type |-> monitors[m].type,
   availability |-> IF data.availability = "Up" THEN "Up" ELSE "Down",
   ping |-> IF data.ping = "Reachable" THEN "Reachable" ELSE "Unreachable",
   port |-> IF data.port = "Open" THEN "Open" ELSE "Closed",
   confirmedByAgent |-> url]

\* `port === "Closed"` of the verification test reads the monitor's numeric
\* port (destructured from the monitor), never the agent's port result
MonitorPortIsClosed == FALSE

\* the test that starts the verification probe
NeedsVerification(data) ==
  \/ data.availability = "Down"
  \/ data.ping = "Unreachable"
  \/ MonitorPortIsClosed

\* the three tests that call sendAlert, on the final candidate
AlertDue(type, e) ==
  \/ type = "web" /\ e.availability = "Down"
  \/ type = "ping" /\ e.ping = "Unreachable"
  \/ type = "port" /\ e.port = "Closed"

\* Verified with the verifier's answer taken for the whole result
VerifiedWholeResult(e, verifyAvailability, url) ==
  [e EXCEPT !.availability = IF verifyAvailability = "Up" THEN "Up" ELSE "Down",
            !.ping = IF verifyAvailability = "Up" THEN "Reachable" ELSE "Unreachable",
            !.confirmedByAgent = url]

\* verification overwrites availability and confirmedByAgent
Verified(e, verifyAvailability, url) ==
  [e EXCEPT !.availability = IF verifyAvailability = "Up" THEN "Up" ELSE "Down",
            !.confirmedByAgent = url]

\* ThrottlePassed with > in place of >=
ThrottlePassedStrictly(lastAlertSentAt, alertFrequency, currentTime) ==
  \/ lastAlertSentAt = NoDate
  \/ \E t \in lastAlertSentAt : currentTime - t > alertFrequency

\* the throttle test of sendAlert: timeDifference >= alertFrequency * 60 * 1000
\* with timeDifference = Infinity when lastAlertSentAt is null
ThrottlePassed(lastAlertSentAt, alertFrequency, currentTime) ==
  \/ lastAlertSentAt = NoDate
  \/ \E t \in lastAlertSentAt : currentTime - t >= alertFrequency

\* the due-set query without its isPaused condition
DueFilterIgnoringPause(m, threshold) ==
  /\ monitors[m].frequency = BucketFrequency
  /\ monitors[m].updatedAt <= threshold

\* the due-set query of a tick
DueFilter(m, threshold) ==
  /\ ~monitors[m].removed
  /\ monitors[m].frequency = BucketFrequency
  /\ monitors[m].updatedAt <= threshold
  /\ monitors[m].isPaused = FALSE

(* ---------------------------------------------------------------------- *)
(* Initial state                                                           *)
(* ---------------------------------------------------------------------- *)
NoEvent ==
  [monitor |-> NULL, timestamp |-> 0, endTime |-> NoDate, type |-> NULL,
   availability |-> NULL, ping |-> NULL, port |-> NULL, confirmedByAgent |-> NULL]

\* the locals of a worker; route, verify and probes record the exchange with
\* the agents, appended and closed the event writes made so far
IdleWorker ==
  [pc |-> "none", lastUptimeEvent |-> 0, lastUptimeStatus |-> NULL,
   selectedUrl |-> NULL, save |-> FALSE, uptimeEvent |-> NoEvent,
   type |-> NULL, user |-> FALSE, stamp |-> 0, data |-> NoData,
   route |-> "none", verify |-> "none", probes |-> 0,
   appended |-> 0, closed |-> 0, alerted |-> FALSE]

\* a worker that has returned (Fulfilled) or thrown (Rejected): its locals are gone
Fulfilled == [IdleWorker EXCEPT !.pc = "fulfilled"]
Rejected == [IdleWorker EXCEPT !.pc = "rejected"]

IdleAlert ==
  [pc |-> "none", userId |-> FALSE, currentTime |-> 0]

IdleTick ==
  [pc |-> "idle", monitorUrlsFromDB |-> <<>>, hasMoreMonitors |-> TRUE,
   page |-> {}, started |-> 0, probes |-> 0, bumped |-> {}]

\* the 2FA codes that can be drawn, the value of a field that was never
\* set, and the login requests that can be in flight together
Codes == {"c1", "c2"}
Undefined == "undefined"
Sessions == 1..2

\* the locals of a /login2fa request
IdleLogin ==
  [pc |-> "none", twoFactorSecret |-> Undefined, twoFactorCode |-> Undefined,
   isPasswordValid |-> FALSE]

\* a verified, active user who never asked for a 2FA code: twoFactorSecret
\* has no default; issued counts the codes sent, tokens lists the code of
\* the request each token was issued to
NoAccount ==
  [twoFactorSecret |-> Undefined, issued |-> [c \in Codes |-> 0], tokens |-> <<>>,
   logins |-> 0, login |-> [s \in Sessions |-> IdleLogin]]

\* no REST request is being served
IdleRequest ==
  [pc |-> "none", served |-> 0, op |-> "none", monitor |-> NULL, duration |-> 0,
   at |-> 0, isPaused |-> FALSE, startDate |-> 0, found |-> {}, currentTime |-> 0, totalUpTime |-> 0, result |-> 0,
   upMonitors |-> 0, downMonitors |-> 0, pausedMonitors |-> 0, totalMonitors |-> 0]

\* startServer has run to its end: connected, every Agenda cancelled and
\* started, the five jobs scheduled
Running ==
  [pc |-> "running", connected |-> TRUE, cancelled |-> NumAgendas,
   processing |-> NumAgendas, stale |-> {}, jobs |-> JobNames]

InitMonitor(type, paused, user, af) ==
  [type |-> type, user |-> user, isPaused |-> paused, frequency |-> BucketFrequency,
   alertFrequency |-> af, lastAlertSentAt |-> NoDate, updatedAt |-> 0,
   removed |-> FALSE]

\* a stored event left by an earlier run: its authoritative field positive
\* or adverse, the interval still open
PriorEvent(m, type, positive) ==
  [monitor |-> m, timestamp |-> 0, endTime |-> NoDate, type |-> type,
   availability |-> IF type = "web" /\ positive THEN "Up" ELSE "Down",
   ping |-> IF type = "ping" /\ positive THEN "Reachable" ELSE "Unreachable",
   port |-> IF type = "port" /\ positive THEN "Open" ELSE "Closed",
   confirmedByAgent |-> AgentUrls[1]]

\* m1 is due, of any kind, with or without a stored event; m2 and m3 are
\* paused
Init ==
  /\ now = Window
  /\ \E n \in 1..Len(AgentUrls) : agents = SubSeq(AgentUrls, 1, n)
  /\ \E t1 \in Kinds :
       monitors = [m \in Monitors |->
                     IF m = "m1" THEN InitMonitor(t1, FALSE, TRUE, 1)
                     ELSE InitMonitor("web", TRUE, TRUE, 1)]
  /\ \E h \in {"none", "positive", "adverse"} :
       events = IF h = "none" THEN <<>>
                ELSE <<PriorEvent("m1", monitors["m1"].type, h = "positive")>>
  /\ alerts = <<>>
  /\ currentUrlIndex = 0
  /\ tick = [t \in Ticks |-> IdleTick]
  /\ worker = [t \in Ticks |-> [m \in Monitors |-> IdleWorker]]
  /\ alertProc = [t \in Ticks |-> [m \in Monitors |-> IdleAlert]]
  /\ request = IdleRequest
  /\ account = NoAccount
  /\ server = Running

(* ---------------------------------------------------------------------- *)
(* The tick: performCronJob60                                              *)
(* ---------------------------------------------------------------------- *)
\* one page of the while loop: Monitor.find with the threshold
\* Date.now() - 60 min, hasMoreMonitors, and one worker started per monitor
\* of the result (monitors.map(async ...)), each up to its first await
Page(t) ==
  LET due == {m \in Monitors : DueFilter(m, now - Window)} IN
    /\ tick' = [tick EXCEPT ![t] =
         [@ EXCEPT !.pc = "await",
                   !.monitorUrlsFromDB = agents,
                   !.page = due,
                   !.started = @ + Cardinality(due),
                   !.hasMoreMonitors = IF Cardinality(due) < pageSize THEN FALSE ELSE @]]
    /\ worker' = [worker EXCEPT ![t] =
         [m \in Monitors |->
            IF m \in due
            THEN [IdleWorker EXCEPT !.pc = "findLast",
                                    !.type = monitors[m].type,
                                    !.user = monitors[m].user]
            ELSE worker[t][m]]]

\* the job fires (agenda60 is processing and holds the scheduled job):
\* MonitorAgent.find, the empty-pool return, the first page
TickFire(t) ==
  /\ tick[t].pc = "idle"
  /\ server.processing = NumAgendas
  /\ "performCronJob60" \in server.jobs \cup server.stale
  /\ \A s \in Ticks : s < t => tick[s].pc # "idle"
  /\ IF Len(agents) = 0
     THEN /\ tick' = [tick EXCEPT ![t].pc = "done"]
          /\ UNCHANGED worker
     ELSE Page(t)
  /\ UNCHANGED <<account, request, server, now, agents, monitors, events, alerts, currentUrlIndex, alertProc>>

\* await Promise.all(monitorPromises) when every worker of the page returned:
\* the next page if hasMoreMonitors, else the job is done
TickPageDone(t) ==
  /\ tick[t].pc = "await"
  /\ \A m \in tick[t].page : worker[t][m].pc = "fulfilled"
  /\ IF tick[t].hasMoreMonitors
     THEN tick[t].started < MaxStarted /\ Page(t)
     ELSE /\ tick' = [tick EXCEPT ![t].pc = "done"]
          /\ UNCHANGED worker
  /\ UNCHANGED <<account, request, server, now, agents, monitors, events, alerts, currentUrlIndex, alertProc>>

\* Promise.all rejects as soon as one worker throws; the outer catch logs
\* and the job returns while the other workers of the page keep running
TickCatch(t) ==
  /\ tick[t].pc = "await"
  /\ \E m \in tick[t].page : worker[t][m].pc = "rejected"
  /\ tick' = [tick EXCEPT ![t].pc = "done"]
  /\ UNCHANGED <<account, request, server, now, agents, monitors, events, alerts, currentUrlIndex, worker, alertProc>>

(* ---------------------------------------------------------------------- *)
(* The worker: the async callback of monitors.map                          *)
(* ---------------------------------------------------------------------- *)
\* FindLast with the increment of the shared index lost
FindLastLostIncrement(t, m) ==
  /\ worker[t][m].pc = "findLast"
  /\ \E last \in LatestEvents(m) :
       LET urls == tick[t].monitorUrlsFromDB IN
       /\ currentUrlIndex < Len(urls)
       /\ worker' = [worker EXCEPT ![t][m] =
            [@ EXCEPT !.pc = "primary",
                      !.lastUptimeEvent = last,
                      !.lastUptimeStatus = lastUptimeStatusOf(worker[t][m].type, last),
                      !.selectedUrl = urls[currentUrlIndex + 1]]]
  /\ UNCHANGED <<account, request, server, now, agents, monitors, events, alerts, currentUrlIndex, tick, alertProc>>

\* UptimeEvent.findOne answers; lastUptimeStatus; the round-robin selection;
\* the primary probe is sent
FindLast(t, m) ==
  /\ worker[t][m].pc = "findLast"
  /\ \E last \in LatestEvents(m) :
       LET urls == tick[t].monitorUrlsFromDB IN
       IF currentUrlIndex < Len(urls)
       THEN /\ worker' = [worker EXCEPT ![t][m] =
                 [@ EXCEPT !.pc = "primary",
                           !.lastUptimeEvent = last,
                           !.lastUptimeStatus = lastUptimeStatusOf(worker[t][m].type, last),
                           !.selectedUrl = urls[currentUrlIndex + 1]]]
            /\ currentUrlIndex' = (currentUrlIndex + 1) % Len(urls)
       ELSE \* monitorUrlsFromDB[currentUrlIndex] is undefined: TypeError
            /\ worker' = [worker EXCEPT ![t][m] = Rejected]
            /\ UNCHANGED currentUrlIndex
  /\ UNCHANGED <<account, request, server, now, agents, monitors, events, alerts, tick, alertProc>>

\* the worker after a response was received: the save flag and the candidate
\* event are computed from the response
Processed(w, m, data, url) ==
  [w EXCEPT !.data = data,
            !.save = SaveDecision(w.type, data, w.lastUptimeStatus),
            !.uptimeEvent = [Candidate(m, data, url) EXCEPT !.type = w.type]]

\* the outcomes of the verification probe: not sent, failed, or the
\* availability the verifier reports
VerifyOutcomes(w, data, urls) ==
  IF NeedsVerification(data) /\ differentAgentUrl(urls, w.selectedUrl) # NULL
  THEN {"error", "Up", "Down", NULL}
  ELSE {"none"}

\* the candidate after the verification block
AfterVerification(w, v, urls) ==
  IF v \in {"none", "error"} THEN [w EXCEPT !.verify = v]
  ELSE [w EXCEPT !.verify = v,
                 !.uptimeEvent = Verified(w.uptimeEvent, v, differentAgentUrl(urls, w.selectedUrl))]

\* the worker after the three alert tests, at its next await: the insert of
\* the candidate if save, else the update of updatedAt
Settled(w) ==
  [w EXCEPT !.alerted = AlertDue(w.type, w.uptimeEvent),
            !.pc = IF w.save THEN "saveEvent" ELSE "bump",
            !.stamp = now]

\* sendAlert(userId, url, id) is called without await: it runs up to its
\* Monitor.findById
StartAlert(t, m, w) ==
  IF w.alerted
  THEN [alertProc EXCEPT ![t][m] = [IdleAlert EXCEPT !.pc = "find", !.userId = w.user]]
  ELSE alertProc

\* the code from a received response to the next database await; sent is the
\* number of probes sent before the verification
AfterResponse(t, m, data, url, route, sent) ==
  LET urls == tick[t].monitorUrlsFromDB
      w == [Processed(worker[t][m], m, data, url) EXCEPT !.route = route]
  IN \E v \in VerifyOutcomes(w, data, urls) :
       LET n == IF v = "none" THEN sent ELSE sent + 1
           w2 == Settled([AfterVerification(w, v, urls) EXCEPT !.probes = n])
       IN /\ worker' = [worker EXCEPT ![t][m] = w2]
          /\ alertProc' = StartAlert(t, m, w2)
          /\ tick' = [tick EXCEPT ![t].probes = @ + n]

\* the primary agent answers
PrimaryOk(t, m) ==
  /\ worker[t][m].pc = "primary"
  /\ \E data \in ResponseData(worker[t][m].type) :
       AfterResponse(t, m, data, worker[t][m].selectedUrl, "primary", 1)
  /\ UNCHANGED <<account, request, server, now, agents, monitors, events, alerts, currentUrlIndex>>

\* AltOk with the failed primary request sent a second time before the
\* failover (the retries of the axios instance enabled)
AltOkAfterRetry(t, m) ==
  /\ worker[t][m].pc = "primary"
  /\ differentAgentUrl(tick[t].monitorUrlsFromDB, worker[t][m].selectedUrl) # NULL
  /\ \E data \in ResponseData(worker[t][m].type) :
       AfterResponse(t, m, data,
                     differentAgentUrl(tick[t].monitorUrlsFromDB, worker[t][m].selectedUrl),
                     "alt", 3)
  /\ UNCHANGED <<account, request, server, now, agents, monitors, events, alerts, currentUrlIndex>>

\* the primary probe fails and the alternate answers: response.config.url is
\* the alternate's URL
AltOk(t, m) ==
  /\ worker[t][m].pc = "primary"
  /\ differentAgentUrl(tick[t].monitorUrlsFromDB, worker[t][m].selectedUrl) # NULL
  /\ \E data \in ResponseData(worker[t][m].type) :
       AfterResponse(t, m, data,
                     differentAgentUrl(tick[t].monitorUrlsFromDB, worker[t][m].selectedUrl),
                     "alt", 2)
  /\ UNCHANGED <<account, request, server, now, agents, monitors, events, alerts, currentUrlIndex>>

\* AltError with the update of updatedAt reached on the failure path
AltErrorBumping(t, m) ==
  /\ worker[t][m].pc = "primary"
  /\ differentAgentUrl(tick[t].monitorUrlsFromDB, worker[t][m].selectedUrl) # NULL
  /\ worker' = [worker EXCEPT ![t][m] = Fulfilled]
  /\ tick' = [tick EXCEPT ![t].probes = @ + 2]
  /\ monitors' = [monitors EXCEPT ![m].updatedAt = now]
  /\ UNCHANGED <<account, request, server, now, agents, events, alerts, currentUrlIndex, alertProc>>

\* the primary probe and the alternate both fail: return
AltError(t, m) ==
  /\ worker[t][m].pc = "primary"
  /\ differentAgentUrl(tick[t].monitorUrlsFromDB, worker[t][m].selectedUrl) # NULL
  /\ worker' = [worker EXCEPT ![t][m] = Fulfilled]
  /\ tick' = [tick EXCEPT ![t].probes = @ + 2]
  /\ UNCHANGED <<account, request, server, now, agents, monitors, events, alerts, currentUrlIndex, alertProc>>

\* NoAlternative with the update of updatedAt reached on the failure path
NoAlternativeBumping(t, m) ==
  /\ worker[t][m].pc = "primary"
  /\ differentAgentUrl(tick[t].monitorUrlsFromDB, worker[t][m].selectedUrl) = NULL
  /\ worker' = [worker EXCEPT ![t][m] = Fulfilled]
  /\ tick' = [tick EXCEPT ![t].probes = @ + 1]
  /\ monitors' = [monitors EXCEPT ![m].updatedAt = now]
  /\ UNCHANGED <<account, request, server, now, agents, events, alerts, currentUrlIndex, alertProc>>

\* the primary probe fails and there is no other agent: return
NoAlternative(t, m) ==
  /\ worker[t][m].pc = "primary"
  /\ differentAgentUrl(tick[t].monitorUrlsFromDB, worker[t][m].selectedUrl) = NULL
  /\ worker' = [worker EXCEPT ![t][m] = Fulfilled]
  /\ tick' = [tick EXCEPT ![t].probes = @ + 1]
  /\ UNCHANGED <<account, request, server, now, agents, monitors, events, alerts, currentUrlIndex, alertProc>>

\* uptimeEvent.save() inserts the candidate; then lastUptimeEvent.endTime is
\* assigned, which throws when there was no last event
SaveEvent(t, m) ==
  /\ worker[t][m].pc = "saveEvent"
  /\ Len(events) < MaxEvents
  /\ events' = Append(events, worker[t][m].uptimeEvent)
  /\ worker' = [worker EXCEPT ![t][m] =
       IF @.lastUptimeEvent = 0
       THEN Rejected
       ELSE [@ EXCEPT !.pc = "saveLast", !.appended = Len(events) + 1, !.stamp = now]]
  /\ UNCHANGED <<account, request, server, now, agents, monitors, alerts, currentUrlIndex, tick, alertProc>>

\* uptimeEvent.save() fails (the database rejects the insert): the worker
\* throws before the update of updatedAt
SaveEventError(t, m) ==
  /\ worker[t][m].pc = "saveEvent"
  /\ worker' = [worker EXCEPT ![t][m] = Rejected]
  /\ UNCHANGED <<account, request, server, now, agents, monitors, events, alerts, currentUrlIndex, tick, alertProc>>

\* lastUptimeEvent.save() stores the endTime; Monitor.findByIdAndUpdate is
\* issued with updatedAt: new Date() (the locals no later line reads are
\* dropped)
SaveLast(t, m) ==
  /\ worker[t][m].pc = "saveLast"
  /\ IF events[worker[t][m].lastUptimeEvent].monitor = NULL
     THEN \* the prior event was deleted meanwhile: save() updates nothing
          \* and either throws or resolves, depending on the library version
          /\ UNCHANGED events
          /\ \/ worker' = [worker EXCEPT ![t][m] = Rejected]
             \/ worker' = [worker EXCEPT ![t][m] = [IdleWorker EXCEPT !.pc = "bump", !.stamp = now]]
     ELSE /\ events' = [events EXCEPT ![worker[t][m].lastUptimeEvent].endTime = Date(worker[t][m].stamp)]
          /\ worker' = [worker EXCEPT ![t][m] =
               [IdleWorker EXCEPT !.pc = "bump", !.closed = worker[t][m].lastUptimeEvent, !.stamp = now]]
  /\ UNCHANGED <<account, request, server, now, agents, monitors, alerts, currentUrlIndex, tick, alertProc>>

\* Bump storing the threshold of the due-set query in place of new Date()
BumpStale(t, m) ==
  /\ worker[t][m].pc = "bump"
  /\ monitors' = [monitors EXCEPT ![m].updatedAt = worker[t][m].stamp - Window]
  /\ worker' = [worker EXCEPT ![t][m] = Fulfilled]
  /\ tick' = [tick EXCEPT ![t].bumped = @ \cup {m}]
  /\ UNCHANGED <<account, request, server, now, agents, events, alerts, currentUrlIndex, alertProc>>

\* Monitor.findByIdAndUpdate stores updatedAt; the worker returns (bumped
\* records, for the properties, the monitors whose worker ran to this end)
Bump(t, m) ==
  /\ worker[t][m].pc = "bump"
  /\ monitors' = IF monitors[m].removed THEN monitors
                 ELSE [monitors EXCEPT ![m].updatedAt = worker[t][m].stamp]
  /\ worker' = [worker EXCEPT ![t][m] = Fulfilled]
  /\ tick' = [tick EXCEPT ![t].bumped = @ \cup {m}]
  /\ UNCHANGED <<account, request, server, now, agents, events, alerts, currentUrlIndex, alertProc>>

(* ---------------------------------------------------------------------- *)
(* sendAlert                                                               *)
(* ---------------------------------------------------------------------- *)
\* AlertFind without the `if (!userId) return`
AlertFindAnyUser(t, m) ==
  /\ alertProc[t][m].pc = "find"
  /\ alertProc' = [alertProc EXCEPT ![t][m] =
       IF ThrottlePassed(monitors[m].lastAlertSentAt, monitors[m].alertFrequency, now)
       THEN [@ EXCEPT !.pc = "saveMon", !.currentTime = now]
       ELSE IdleAlert]
  /\ UNCHANGED <<account, request, server, now, agents, monitors, events, alerts, currentUrlIndex, tick, worker>>

\* Monitor.findById answers; the throttle test on the document just read;
\* lastAlertSentAt is assigned and monitor.save() is issued
AlertFind(t, m) ==
  /\ alertProc[t][m].pc = "find"
  /\ alertProc' = [alertProc EXCEPT ![t][m] =
       IF /\ ~monitors[m].removed
          /\ @.userId
          /\ ThrottlePassed(monitors[m].lastAlertSentAt, monitors[m].alertFrequency, now)
       THEN [@ EXCEPT !.pc = "saveMon", !.currentTime = now]
       ELSE IdleAlert]
  /\ UNCHANGED <<account, request, server, now, agents, monitors, events, alerts, currentUrlIndex, tick, worker>>

\* monitor.save() stores lastAlertSentAt (and, by the schema's timestamps
\* option, updatedAt); then newAlert.save() inserts the alert
AlertSaveMon(t, m) ==
  /\ alertProc[t][m].pc = "saveMon"
  /\ IF monitors[m].removed
     THEN \* the document is gone: save() updates nothing and either
          \* throws or resolves, depending on the library version
          /\ UNCHANGED monitors
          /\ \/ UNCHANGED alerts
             \/ alerts' = Append(alerts, [monitorId |-> m, createdAt |-> now])
     ELSE /\ monitors' = [monitors EXCEPT ![m].lastAlertSentAt = Date(alertProc[t][m].currentTime),
                                          ![m].updatedAt = alertProc[t][m].currentTime]
          /\ alerts' = Append(alerts, [monitorId |-> m, createdAt |-> now])
  /\ alertProc' = [alertProc EXCEPT ![t][m] = IdleAlert]
  /\ UNCHANGED <<account, request, server, now, agents, events, currentUrlIndex, tick, worker>>

(* ---------------------------------------------------------------------- *)
(* The clock                                                               *)
(* ---------------------------------------------------------------------- *)
Advance ==
  /\ now < MaxNow
  /\ now' = now + 1
  /\ UNCHANGED <<account, request, server, agents, monitors, events, alerts, currentUrlIndex, tick, worker, alertProc>>

WorkerStep(t, m) ==
  \/ FindLast(t, m)
  \/ PrimaryOk(t, m)
  \/ AltOk(t, m)
  \/ AltError(t, m)
  \/ NoAlternative(t, m)
  \/ SaveEvent(t, m)
  \/ SaveEventError(t, m)
  \/ SaveLast(t, m)
  \/ Bump(t, m)
  \/ AlertFind(t, m)
  \/ AlertSaveMon(t, m)

\* the job fires up to MaxTicks times, a firing not waiting for the earlier
\* ones; the whole run takes less than a minute
Next ==
  \/ \E t \in Ticks : TickFire(t) \/ TickPageDone(t) \/ TickCatch(t)
  \/ \E t \in Ticks, m \in Monitors : WorkerStep(t, m)

Spec == Init /\ [][Next]_vars

\* one firing of the job, with the clock running
NextTimed ==
  \/ Advance
  \/ TickFire(1) \/ TickPageDone(1) \/ TickCatch(1)
  \/ \E m \in Monitors : WorkerStep(1, m)

SpecTimed == Init /\ [][NextTimed]_vars

\* one firing over two due monitors, a full page: a web monitor with a
\* stored event and an owner, and a port monitor that has neither
InitPaged ==
  /\ now = Window
  /\ \E n \in 1..Len(AgentUrls) : agents = SubSeq(AgentUrls, 1, n)
  /\ monitors = [m \in Monitors |->
                   IF m = "m1" THEN InitMonitor("web", FALSE, TRUE, 1)
                   ELSE InitMonitor("port", m = "m3", FALSE, 1)]
  /\ \E positive \in BOOLEAN : events = <<PriorEvent("m1", "web", positive)>>
  /\ alerts = <<>>
  /\ currentUrlIndex = 0
  /\ tick = [t \in Ticks |-> IdleTick]
  /\ worker = [t \in Ticks |-> [m \in Monitors |-> IdleWorker]]
  /\ alertProc = [t \in Ticks |-> [m \in Monitors |-> IdleAlert]]
  /\ request = IdleRequest
  /\ account = NoAccount
  /\ server = Running

\* one firing over three due port monitors, more than a page holds; only m1
\* has a stored event and an owner
InitOverfull ==
  /\ now = Window
  /\ \E n \in 1..Len(AgentUrls) : agents = SubSeq(AgentUrls, 1, n)
  /\ monitors = [m \in Monitors |-> InitMonitor("port", FALSE, m = "m1", 1)]
  /\ events = <<PriorEvent("m1", "port", TRUE)>>
  /\ alerts = <<>>
  /\ currentUrlIndex = 0
  /\ tick = [t \in Ticks |-> IdleTick]
  /\ worker = [t \in Ticks |-> [m \in Monitors |-> IdleWorker]]
  /\ alertProc = [t \in Ticks |-> [m \in Monitors |-> IdleAlert]]
  /\ request = IdleRequest
  /\ account = NoAccount
  /\ server = Running

NextPaged ==
  \/ TickFire(1) \/ TickPageDone(1) \/ TickCatch(1)
  \/ \E m \in Monitors : WorkerStep(1, m)

SpecPaged == InitPaged /\ [][NextPaged]_vars

SpecOverfull == InitOverfull /\ [][NextPaged]_vars

\* one firing with the clock running, over a monitor with or without an
\* owning user, of any alertFrequency, alerted before or never
InitAlert ==
  /\ now = Window
  /\ \E n \in 1..Len(AgentUrls) : agents = SubSeq(AgentUrls, 1, n)
  /\ \E t1 \in Kinds, user \in BOOLEAN, af \in {1, 60, 1440}, last \in {NoDate, Date(0)} :
       monitors = [m \in Monitors |->
                     IF m = "m1"
                     THEN [InitMonitor(t1, FALSE, user, af) EXCEPT !.lastAlertSentAt = last]
                     ELSE InitMonitor("web", TRUE, TRUE, 1)]
  /\ \E h \in {"none", "positive", "adverse"} :
       events = IF h = "none" THEN <<>>
                ELSE <<PriorEvent("m1", monitors["m1"].type, h = "positive")>>
  /\ alerts = <<>>
  /\ currentUrlIndex = 0
  /\ tick = [t \in Ticks |-> IdleTick]
  /\ worker = [t \in Ticks |-> [m \in Monitors |-> IdleWorker]]
  /\ alertProc = [t \in Ticks |-> [m \in Monitors |-> IdleAlert]]
  /\ request = IdleRequest
  /\ account = NoAccount
  /\ server = Running

SpecAlert == InitAlert /\ [][NextTimed]_vars

(* ---------------------------------------------------------------------- *)
(* The REST surface: create and update a monitor                           *)
(* ---------------------------------------------------------------------- *)
\* the validators of monitorSchema that run in save(): the enums of type and
\* alertFrequency; frequency is any number
SchemaValid(doc) ==
  /\ doc.type \in Kinds
  /\ doc.frequency \in Nat
  /\ doc.alertFrequency \in AlertFrequencies

\* the document router.post('/monitors') builds from a request body
\* (alertFrequency 0 stands for a body without it)
Created(type, frequency, alertFrequency) ==
  [InitMonitor(type, FALSE, TRUE, IF alertFrequency = 0 THEN 1 ELSE alertFrequency)
     EXCEPT !.frequency = frequency]

\* router.put('/monitors/:id'): the monitor of the caller is read, type,
\* frequency and alertFrequency are assigned from the body and the document
\* is saved, which validates it and, if a field changed, sets updatedAt
\* (url, name, port and contacts are not modelled)
PutMonitor(m, type, frequency, alertFrequency) ==
  /\ request.pc = "none"
  /\ request.served < MaxRequests
  /\ request' = [request EXCEPT !.served = @ + 1]
  /\ LET doc == [monitors[m] EXCEPT !.type = type,
                                     !.frequency = frequency,
                                     !.alertFrequency = alertFrequency]
     IN IF monitors[m].user /\ SchemaValid(doc) /\ doc # monitors[m]
        THEN monitors' = [monitors EXCEPT ![m] = [doc EXCEPT !.updatedAt = now]]
        ELSE UNCHANGED monitors
  /\ UNCHANGED <<account, server, now, agents, events, alerts, currentUrlIndex, tick, worker, alertProc>>

\* an hour passes
Hour ==
  /\ now < MaxHours * Window
  /\ now' = now + Window
  /\ UNCHANGED <<account, request, server, agents, monitors, events, alerts, currentUrlIndex, tick, worker, alertProc>>

\* m1 is a monitor of the bucket with a stored event of its kind, last
\* written an hour ago; m2 was just created by a POST, for another job's
\* bucket or for none
InitPut ==
  /\ now = Window
  /\ \E n \in 1..Len(AgentUrls) : agents = SubSeq(AgentUrls, 1, n)
  /\ \E t1 \in Kinds, f2 \in {7, 30} :
       monitors = [m \in Monitors |->
                     IF m = "m1" THEN Created(t1, BucketFrequency, 0)
                     ELSE IF m = "m2" THEN [Created("web", f2, 0) EXCEPT !.updatedAt = now]
                     ELSE InitMonitor("web", TRUE, TRUE, 1)]
  /\ \E positive \in BOOLEAN :
       events = <<PriorEvent("m1", monitors["m1"].type, positive)>>
  /\ alerts = <<>>
  /\ currentUrlIndex = 0
  /\ tick = [t \in Ticks |-> IdleTick]
  /\ worker = [t \in Ticks |-> [m \in Monitors |-> IdleWorker]]
  /\ alertProc = [t \in Ticks |-> [m \in Monitors |-> IdleAlert]]
  /\ request = IdleRequest
  /\ account = NoAccount
  /\ server = Running

\* update requests for m1, the clock jumping an hour, one firing of the job
NextPut ==
  \/ \E type \in Kinds, frequency \in {7, BucketFrequency}, alertFrequency \in {1, 2} :
       PutMonitor("m1", type, frequency, alertFrequency)
  \/ Hour
  \/ TickFire(1) \/ TickPageDone(1) \/ TickCatch(1)
  \/ \E m \in Monitors : WorkerStep(1, m)

SpecPut == InitPut /\ [][NextPut]_vars

(* ---------------------------------------------------------------------- *)
(* The REST surface: the read aggregators                                  *)
(* ---------------------------------------------------------------------- *)
\* the test of an event in the two versions of calculateAverageUptime and in
\* the stats handler: "monitorsAll" and "stats" accept any of the three
\* fields, "monitoringUptime" reads availability only
CountsAsUp(op, e) ==
  IF op = "monitoringUptime" THEN e.availability = "Up"
  ELSE e.availability = "Up" \/ e.ping = "Reachable" \/ e.port = "Open"

\* the field of e that is authoritative for a monitor kind is positive
IsPositive(type, e) == Authoritative(type, e) \in {"Up", "Reachable", "Open"}

\* startDate.setDate(startDate.getDate() - durationInDays): the same local
\* time durationInDays calendar days earlier; shift is what the local
\* clock was moved by in between (0 where no daylight saving applies)
StartDate(currentTime, durationInDays, shift) ==
  currentTime - durationInDays * Day - shift

\* the for loop over the events S in ascending timestamp order: the time
\* since the cursor is added for the events in Up
RECURSIVE UpTimeLoop(_, _, _)
UpTimeLoop(S, lastTimestamp, Up) ==
  IF S = {} THEN 0
  ELSE LET i == CHOOSE i \in S : \A j \in S : events[i].timestamp <= events[j].timestamp
       IN (IF i \in Up THEN events[i].timestamp - lastTimestamp ELSE 0)
          + UpTimeLoop(S \ {i}, events[i].timestamp, Up)

\* the loop and the final interval up to currentTime, which is added when
\* the last event is in Up
TotalUpTime(S, startDate, currentTime, Up) ==
  LET last == CHOOSE i \in S : \A j \in S : events[j].timestamp <= events[i].timestamp
  IN UpTimeLoop(S, startDate, Up)
     + (IF last \in Up THEN currentTime - events[last].timestamp ELSE 0)

\* (totalUpTime / totalDuration) * 100 through toFixed(0) or toFixed(2), in
\* hundredths of a percent
AverageUptime(op, totalUpTime, durationInDays) ==
  LET totalDuration == durationInDays * Day
  IN IF op = "monitoringUptime"
     THEN (20000 * totalUpTime + totalDuration) \div (2 * totalDuration)
     ELSE 100 * ((200 * totalUpTime + totalDuration) \div (2 * totalDuration))

\* the events of m from startDate on
InWindow(m, startDate) == {i \in EventsOf(m) : events[i].timestamp >= startDate}

\* calculateAverageUptime up to its await: router.post('/monitors/all') calls
\* the first version with 1 day for each monitor of the caller,
\* router.post('/monitoring/uptime') the second with 1, 7 and 30 days for the
\* monitor id of the body
UptimeStart(op, m, durationInDays, shift) ==
  /\ request.pc = "none"
  /\ request.served < MaxRequests
  /\ op = "monitorsAll" => (durationInDays = 1 /\ monitors[m].user)
  /\ request' = [IdleRequest EXCEPT !.pc = "find", !.served = request.served + 1,
                                    !.op = op, !.monitor = m,
                                    !.duration = durationInDays, !.at = now,
                                    !.startDate = StartDate(now, durationInDays, shift)]
  /\ UNCHANGED <<account, server, now, agents, monitors, events, alerts, currentUrlIndex, tick, worker, alertProc>>

\* time passes while UptimeEvent.find is awaited
Elapse ==
  /\ request.pc = "find"
  /\ now < request.at + MaxWait
  /\ now' = now + 1
  /\ UNCHANGED <<account, request, server, agents, monitors, events, alerts, currentUrlIndex, tick, worker, alertProc>>

\* calculateAverageUptime after its await; the filter of the second version
\* names the path 'monitor.user', which the event schema does not have: the
\* query layer either drops it (userFilterDropped) or passes it on, and then
\* no event matches
UptimeDone(userFilterDropped) ==
  /\ request.pc = "find"
  /\ LET uptimeEvents == IF request.op = "monitoringUptime" /\ ~userFilterDropped
                         THEN {}
                         ELSE InWindow(request.monitor, request.startDate)
         Up == {i \in uptimeEvents : CountsAsUp(request.op, events[i])}
         totalUpTime == TotalUpTime(uptimeEvents, request.startDate, now, Up)
     IN request' =
          IF uptimeEvents = {}
          THEN [request EXCEPT !.pc = "none", !.currentTime = now, !.result = 100 * 100]
          ELSE [request EXCEPT !.pc = "none", !.found = uptimeEvents,
                               !.currentTime = now,
                               !.totalUpTime = totalUpTime,
                               !.result = AverageUptime(request.op, totalUpTime, request.duration)]
  /\ UNCHANGED <<account, server, now, agents, monitors, events, alerts, currentUrlIndex, tick, worker, alertProc>>

\* router.post('/monitoring/stats'): the monitors of the caller are counted
\* as paused, up or down by their latest event
StatsRequest ==
  /\ request.pc = "none"
  /\ request.served < MaxRequests
  /\ LET userMonitors == {m \in Monitors : monitors[m].user}
         paused == {m \in userMonitors : monitors[m].isPaused}
     IN \E latest \in [userMonitors -> 0..Len(events)] :
          /\ \A m \in userMonitors : latest[m] \in LatestEvents(m)
          /\ LET up == {m \in userMonitors \ paused :
                         latest[m] # 0 /\ CountsAsUp("stats", events[latest[m]])}
             IN request' = [IdleRequest EXCEPT !.served = request.served + 1,
                                               !.op = "stats", !.at = now,
                                               !.currentTime = now,
                                               !.totalMonitors = Cardinality(userMonitors),
                                               !.upMonitors = Cardinality(up),
                                               !.downMonitors = Cardinality((userMonitors \ paused) \ up),
                                               !.pausedMonitors = Cardinality(paused)]
  /\ UNCHANGED <<account, server, now, agents, monitors, events, alerts, currentUrlIndex, tick, worker, alertProc>>

\* the events a worker of m can have appended at time t: the candidate of a
\* response, and for an adverse one the candidate a second agent overwrote
Produced(m, t) ==
  LET candidates == {[Candidate(m, data, AgentUrls[1]) EXCEPT !.timestamp = t] :
                       data \in ResponseData(monitors[m].type)}
  IN candidates \cup
     {Verified(e, v, AgentUrls[2]) :
        e \in {c \in candidates : ~IsPositive(monitors[m].type, c)}, v \in {"Up", "Down"}}

\* eight days of history: m1 of any kind has up to two stored events, two
\* days, a little over a day, half a day or ten minutes old; m2 has none
InitStats ==
  /\ now = 8 * Day
  /\ agents = AgentUrls
  /\ \E type \in Kinds, paused \in BOOLEAN :
       monitors = [m \in Monitors |->
                     IF m = "m1" THEN InitMonitor(type, FALSE, TRUE, 1)
                     ELSE IF m = "m2" THEN InitMonitor("web", paused, TRUE, 1)
                     ELSE InitMonitor("web", TRUE, FALSE, 1)]
  /\ LET times == {now - 2 * Day, now - Day - 30, now - 720, now - 10}
     IN \/ events = <<>>
        \/ \E t \in times : \E e \in Produced("m1", t) : events = <<e>>
        \/ \E t1, t2 \in times :
             /\ t1 < t2
             /\ \E e1 \in Produced("m1", t1), e2 \in Produced("m1", t2) : events = <<e1, e2>>
  /\ alerts = <<>>
  /\ currentUrlIndex = 0
  /\ tick = [t \in Ticks |-> IdleTick]
  /\ worker = [t \in Ticks |-> [m \in Monitors |-> IdleWorker]]
  /\ alertProc = [t \in Ticks |-> [m \in Monitors |-> IdleAlert]]
  /\ request = IdleRequest
  /\ account = NoAccount
  /\ server = Running

NextStats ==
  \/ \E op \in {"monitorsAll", "monitoringUptime"}, m \in {"m1", "m2"},
        durationInDays \in {1, 7}, shift \in {-60, 0, 60} :
       UptimeStart(op, m, durationInDays, shift)
  \/ Elapse
  \/ \E userFilterDropped \in BOOLEAN : UptimeDone(userFilterDropped)
  \/ StatsRequest

SpecStats == InitStats /\ [][NextStats]_vars

(* ---------------------------------------------------------------------- *)
(* Startup: startServer                                                    *)
(* ---------------------------------------------------------------------- *)
\* await mongoose.connect: on success the five schedulers are constructed
\* and their jobs defined, on failure the catch logs and startServer ends
Connect(ok) ==
  /\ server.pc = "connect"
  /\ server' = IF ok THEN [server EXCEPT !.pc = "cancel", !.connected = TRUE]
                ELSE [server EXCEPT !.pc = "failed"]
  /\ UNCHANGED <<account, request, now, agents, monitors, events, alerts, currentUrlIndex, tick, worker, alertProc>>

\* Cancel that leaves the stored jobs in place
CancelKeepingJobs ==
  /\ server.pc = "cancel"
  /\ server' = [server EXCEPT !.cancelled = @ + 1,
                              !.pc = IF server.cancelled + 1 = NumAgendas THEN "start" ELSE @]
  /\ UNCHANGED <<account, request, now, agents, monitors, events, alerts, currentUrlIndex, tick, worker, alertProc>>

\* await agendaK.cancel({}): the empty filter removes every job of the
\* collection the five schedulers share; after the fifth the starts follow
Cancel ==
  /\ server.pc = "cancel"
  /\ server' = [server EXCEPT !.cancelled = @ + 1,
                              !.stale = {},
                              !.pc = IF server.cancelled + 1 = NumAgendas THEN "start" ELSE @]
  /\ UNCHANGED <<account, request, now, agents, monitors, events, alerts, currentUrlIndex, tick, worker, alertProc>>

\* await agendaK.start(): one more scheduler processes jobs; after the fifth
\* the five every() calls are issued and startServer goes on to listen
Start ==
  /\ server.pc = "start"
  /\ server' = [server EXCEPT !.processing = @ + 1,
                              !.pc = IF server.processing + 1 = NumAgendas THEN "running" ELSE @]
  /\ UNCHANGED <<account, request, now, agents, monitors, events, alerts, currentUrlIndex, tick, worker, alertProc>>

\* the save of a job that every() scheduled completes
Scheduled(j) ==
  /\ server.pc = "running"
  /\ j \notin server.jobs
  /\ server' = [server EXCEPT !.jobs = @ \cup {j}]
  /\ UNCHANGED <<account, request, now, agents, monitors, events, alerts, currentUrlIndex, tick, worker, alertProc>>

\* the process starts: nothing is connected, the job collection holds what
\* an earlier run left; m1 is due
InitStartup ==
  /\ now = Window
  /\ \E n \in 1..Len(AgentUrls) : agents = SubSeq(AgentUrls, 1, n)
  /\ monitors = [m \in Monitors |->
                   IF m = "m1" THEN InitMonitor("web", FALSE, TRUE, 1)
                   ELSE InitMonitor("web", TRUE, TRUE, 1)]
  /\ \E positive \in BOOLEAN : events = <<PriorEvent("m1", "web", positive)>>
  /\ alerts = <<>>
  /\ currentUrlIndex = 0
  /\ tick = [t \in Ticks |-> IdleTick]
  /\ worker = [t \in Ticks |-> [m \in Monitors |-> IdleWorker]]
  /\ alertProc = [t \in Ticks |-> [m \in Monitors |-> IdleAlert]]
  /\ request = IdleRequest
  /\ account = NoAccount
  /\ \E stale \in {{}, {"performCronJob60"}, JobNames} :
       server = [pc |-> "connect", connected |-> FALSE, cancelled |-> 0,
                 processing |-> 0, stale |-> stale, jobs |-> {}]

NextStartup ==
  \/ \E ok \in BOOLEAN : Connect(ok)
  \/ Cancel
  \/ Start
  \/ \E j \in JobNames : Scheduled(j)
  \/ TickFire(1) \/ TickPageDone(1) \/ TickCatch(1)
  \/ \E m \in Monitors : WorkerStep(1, m)

SpecStartup == InitStartup /\ [][NextStartup]_vars

(* ---------------------------------------------------------------------- *)
(* The REST surface: pause and resume                                      *)
(* ---------------------------------------------------------------------- *)
\* the three handlers that pause or resume one monitor:
\* router.put('/monitors/:id/pause'), the admin router's
\* router.put('/monitors/pause') and router.put('/monitors/resume')
PauseOps == {"pause", "adminPause", "resume"}

\* the handler up to `await monitor.save()`: the monitor is read and
\* monitor.isPaused = !monitor.isPaused is assigned
PauseFind(op, m) ==
  /\ request.pc = "none"
  /\ request.served < MaxRequests
  /\ request' = [IdleRequest EXCEPT !.pc = "save", !.served = request.served + 1,
                                    !.op = op, !.monitor = m, !.at = now,
                                    !.isPaused = ~monitors[m].isPaused]
  /\ UNCHANGED <<account, server, now, agents, monitors, events, alerts, currentUrlIndex, tick, worker, alertProc>>

\* monitor.save() stores the assigned isPaused and, by the schema's
\* timestamps option, updatedAt; the handler answers 200
PauseSave ==
  /\ request.pc = "save"
  /\ monitors' = [monitors EXCEPT ![request.monitor].isPaused = request.isPaused,
                                  ![request.monitor].updatedAt = now]
  /\ request' = [request EXCEPT !.pc = "none"]
  /\ UNCHANGED <<account, server, now, agents, events, alerts, currentUrlIndex, tick, worker, alertProc>>

\* pause and resume requests beside one firing of the job, the clock running
NextPause ==
  \/ \E op \in PauseOps, m \in {"m1", "m2"} : PauseFind(op, m)
  \/ PauseSave
  \/ NextTimed

SpecPause == Init /\ [][NextPause]_vars

(* ---------------------------------------------------------------------- *)
(* The settings surface: an agent is removed                               *)
(* ---------------------------------------------------------------------- *)
\* router.delete('/delete/monitor/:id') of the settings router:
\* MonitorAgent.findByIdAndRemove takes the i-th agent out of the pool
DeleteAgent(i) ==
  /\ request.pc = "none"
  /\ request.served < MaxRequests
  /\ i \in 1..Len(agents)
  /\ agents' = SubSeq(agents, 1, i - 1) \o SubSeq(agents, i + 1, Len(agents))
  /\ request' = [IdleRequest EXCEPT !.served = request.served + 1,
                                    !.op = "deleteAgent", !.at = now]
  /\ UNCHANGED <<account, server, now, monitors, events, alerts, currentUrlIndex, tick, worker, alertProc>>

\* the whole pool is registered; m1, a web monitor, is due, has an owner
\* and a stored event
InitShrink ==
  /\ now = Window
  /\ agents = AgentUrls
  /\ monitors = [m \in Monitors |->
                   IF m = "m1" THEN InitMonitor("web", FALSE, TRUE, 1)
                   ELSE InitMonitor("web", TRUE, TRUE, 1)]
  /\ \E positive \in BOOLEAN : events = <<PriorEvent("m1", "web", positive)>>
  /\ alerts = <<>>
  /\ currentUrlIndex = 0
  /\ tick = [t \in Ticks |-> IdleTick]
  /\ worker = [t \in Ticks |-> [m \in Monitors |-> IdleWorker]]
  /\ alertProc = [t \in Ticks |-> [m \in Monitors |-> IdleAlert]]
  /\ request = IdleRequest
  /\ account = NoAccount
  /\ server = Running

\* the firings of the job, and agents being removed in between
NextShrink ==
  \/ \E i \in 1..Len(AgentUrls) : DeleteAgent(i)
  \/ Next

SpecShrink == InitShrink /\ [][NextShrink]_vars

(* ---------------------------------------------------------------------- *)
(* Two firings an hour apart                                               *)
(* ---------------------------------------------------------------------- *)
\* no worker and no sendAlert of firing t is running
Quiet(t) ==
  /\ tick[t].pc = "done"
  /\ \A m \in Monitors :
       /\ worker[t][m].pc \in {"none", "fulfilled", "rejected"}
       /\ alertProc[t][m].pc = "none"

\* the clock reaches the next full hour, the time of the schedule
\* "0 * * * *", after the firing of the hour has ended
ToNextHour ==
  /\ now < MaxHours * Window
  /\ Quiet(1)
  /\ now' = (now \div Window + 1) * Window
  /\ UNCHANGED <<account, request, server, agents, monitors, events, alerts, currentUrlIndex, tick, worker, alertProc>>

\* m1, a web monitor of a user, is due at the full hour and has a stored
\* event
InitHourly ==
  /\ now = Window
  /\ \E n \in 1..Len(AgentUrls) : agents = SubSeq(AgentUrls, 1, n)
  /\ monitors = [m \in Monitors |->
                   IF m = "m1" THEN InitMonitor("web", FALSE, TRUE, 1)
                   ELSE InitMonitor("web", TRUE, TRUE, 1)]
  /\ \E positive \in BOOLEAN : events = <<PriorEvent("m1", "web", positive)>>
  /\ alerts = <<>>
  /\ currentUrlIndex = 0
  /\ tick = [t \in Ticks |-> IdleTick]
  /\ worker = [t \in Ticks |-> [m \in Monitors |-> IdleWorker]]
  /\ alertProc = [t \in Ticks |-> [m \in Monitors |-> IdleAlert]]
  /\ request = IdleRequest
  /\ account = NoAccount
  /\ server = Running

\* the first firing at the full hour, the second at the next full hour,
\* the clock running while the workers of the first are in flight
NextHourly ==
  \/ now = Window /\ TickFire(1)
  \/ now = 2 * Window /\ TickFire(2)
  \/ Advance
  \/ ToNextHour
  \/ \E t \in Ticks : TickPageDone(t) \/ TickCatch(t)
  \/ \E t \in Ticks, m \in Monitors : WorkerStep(t, m)

SpecHourly == InitHourly /\ [][NextHourly]_vars

(* ---------------------------------------------------------------------- *)
(* The REST surface: a monitor is deleted                                  *)
(* ---------------------------------------------------------------------- *)
\* router.delete('/monitors/remove') up to `await monitor.remove()`: the
\* monitor of the caller is read; 404 when there is none
DeleteFind(m) ==
  /\ request.pc = "none"
  /\ request.served < MaxRequests
  /\ request' = [IdleRequest EXCEPT !.served = request.served + 1,
                                    !.op = "delete", !.monitor = m, !.at = now,
                                    !.pc = IF monitors[m].user /\ ~monitors[m].removed
                                           THEN "remove" ELSE "none"]
  /\ UNCHANGED <<account, server, now, agents, monitors, events, alerts, currentUrlIndex, tick, worker, alertProc>>

\* monitor.remove() deletes the document
DeleteRemove ==
  /\ request.pc = "remove"
  /\ monitors' = [monitors EXCEPT ![request.monitor].removed = TRUE]
  /\ request' = [request EXCEPT !.pc = "deleteEvents"]
  /\ UNCHANGED <<account, server, now, agents, events, alerts, currentUrlIndex, tick, worker, alertProc>>

\* UptimeEvent.deleteMany({monitor}) deletes the events stored for the
\* monitor (their places in the sequence are kept, empty); the handler
\* answers 200
DeleteEvents ==
  /\ request.pc = "deleteEvents"
  /\ events' = [i \in 1..Len(events) |->
                  IF events[i].monitor = request.monitor THEN NoEvent ELSE events[i]]
  /\ request' = [request EXCEPT !.pc = "none"]
  /\ UNCHANGED <<account, server, now, agents, monitors, alerts, currentUrlIndex, tick, worker, alertProc>>

\* a deletion of m1 beside one firing of the job
NextDelete ==
  \/ DeleteFind("m1")
  \/ DeleteRemove
  \/ DeleteEvents
  \/ NextPaged

SpecDelete == InitHourly /\ [][NextDelete]_vars

(* ---------------------------------------------------------------------- *)
(* Two-factor login                                                        *)
(* ---------------------------------------------------------------------- *)
\* router.post('/login2fa/code'): a code is drawn, stored as the user's
\* twoFactorSecret and sent
SendCode(code) ==
  /\ account.issued["c1"] + account.issued["c2"] < MaxCodes
  /\ account' = [account EXCEPT !.twoFactorSecret = code, !.issued[code] = @ + 1]
  /\ UNCHANGED <<now, agents, monitors, events, alerts, currentUrlIndex, tick, worker, alertProc, request, server>>

\* router.post('/login2fa') up to `await bcrypt.compare`: the user is read
LoginFind(s, twoFactorCode, isPasswordValid) ==
  /\ account.login[s].pc = "none"
  /\ account.logins < MaxLogins
  /\ account' = [account EXCEPT !.logins = @ + 1,
                                !.login[s] = [pc |-> "compare",
                                              twoFactorSecret |-> account.twoFactorSecret,
                                              twoFactorCode |-> twoFactorCode,
                                              isPasswordValid |-> isPasswordValid]]
  /\ UNCHANGED <<now, agents, monitors, events, alerts, currentUrlIndex, tick, worker, alertProc, request, server>>

\* the password test and `user.twoFactorSecret !== twoFactorCode` on the
\* user that was read: 401, or twoFactorSecret = null and on to user.save()
LoginCompare(s) ==
  /\ account.login[s].pc = "compare"
  /\ account' = [account EXCEPT !.login[s] =
       IF @.isPasswordValid /\ @.twoFactorSecret = @.twoFactorCode
       THEN [@ EXCEPT !.pc = "save"]
       ELSE IdleLogin]
  /\ UNCHANGED <<now, agents, monitors, events, alerts, currentUrlIndex, tick, worker, alertProc, request, server>>

\* user.save() stores the cleared twoFactorSecret; the token is signed and
\* answered
LoginSave(s) ==
  /\ account.login[s].pc = "save"
  /\ account' = [account EXCEPT !.twoFactorSecret = NULL,
                                !.tokens = Append(@, account.login[s].twoFactorCode),
                                !.login[s] = IdleLogin]
  /\ UNCHANGED <<now, agents, monitors, events, alerts, currentUrlIndex, tick, worker, alertProc, request, server>>

\* nothing but the 2FA surface runs
InitLogin ==
  /\ now = Window
  /\ agents = AgentUrls
  /\ monitors = [m \in Monitors |-> InitMonitor("web", TRUE, TRUE, 1)]
  /\ events = <<>>
  /\ alerts = <<>>
  /\ currentUrlIndex = 0
  /\ tick = [t \in Ticks |-> IdleTick]
  /\ worker = [t \in Ticks |-> [m \in Monitors |-> IdleWorker]]
  /\ alertProc = [t \in Ticks |-> [m \in Monitors |-> IdleAlert]]
  /\ request = IdleRequest
  /\ server = Running
  /\ account = NoAccount

\* code requests and login requests, with a code, without one
\* (undefined) or with null, the password right or wrong
NextLogin ==
  \/ \E code \in Codes : SendCode(code)
  \/ \E s \in Sessions, twoFactorCode \in Codes \cup {Undefined, NULL}, isPasswordValid \in BOOLEAN :
       LoginFind(s, twoFactorCode, isPasswordValid)
  \/ \E s \in Sessions : LoginCompare(s) \/ LoginSave(s)

SpecLogin == InitLogin /\ [][NextLogin]_vars

(* ---------------------------------------------------------------------- *)
(* Properties                                                              *)
(* ---------------------------------------------------------------------- *)
\* the order of the stored events: by timestamp, then by insertion
Before(i, j) ==
  \/ events[i].timestamp < events[j].timestamp
  \/ events[i].timestamp = events[j].timestamp /\ i < j

\* i and j are consecutive events of monitor m
Consecutive(m, i, j) ==
  /\ i \in EventsOf(m)
  /\ j \in EventsOf(m)
  /\ Before(i, j)
  /\ ~ \E k \in EventsOf(m) : Before(i, k) /\ Before(k, j)

\* a worker of m is between its first await and its return
InFlight(t, m) == worker[t][m].pc \notin {"none", "fulfilled", "rejected"}

\* the worker has the agents' answer and has not yet dropped it
Answered(w) == w.route # "none"

\* C1: no two consecutive events of a monitor carry the same value in the
\* field authoritative for the monitor's kind
C1_AuthoritativeToggles ==
  \A m \in Monitors : \A i, j \in EventsOf(m) :
    Consecutive(m, i, j) =>
      Authoritative(monitors[m].type, events[i]) # Authoritative(monitors[m].type, events[j])

\* C2: a worker decides to append exactly when the normalised authoritative
\* value of its candidate differs from the authoritative value of the latest
\* event it read ("Unknown" when there is none)
C2_AppendIffChanged ==
  \A t \in Ticks, m \in Monitors :
    Answered(worker[t][m]) =>
      (worker[t][m].save <=>
         Authoritative(worker[t][m].type, worker[t][m].uptimeEvent)
           # worker[t][m].lastUptimeStatus)

\* C3: once no worker of the monitor is in flight, each event's endTime is
\* the timestamp of the next event of the monitor, and is null exactly for
\* the latest event
C3_EndTimeIsNextTimestamp ==
  \A m \in Monitors :
    (\A t \in Ticks : ~InFlight(t, m)) =>
      /\ \A i, j \in EventsOf(m) :
           Consecutive(m, i, j) => events[i].endTime = Date(events[j].timestamp)
      /\ \A i \in EventsOf(m) :
           (events[i].endTime = NoDate) <=> (~ \E j \in EventsOf(m) : Before(i, j))

\* C4: two alerts of the same monitor are at least alertFrequency minutes apart
C4_AlertsThrottled ==
  \A i, j \in 1..Len(alerts) :
    (i < j /\ alerts[i].monitorId = alerts[j].monitorId) =>
      alerts[j].createdAt - alerts[i].createdAt
        >= monitors[alerts[i].monitorId].alertFrequency

\* C5: at most one worker of a monitor is in flight
C5_OneWorkerPerMonitor ==
  \A m \in Monitors : \A t1, t2 \in Ticks :
    (InFlight(t1, m) /\ InFlight(t2, m)) => t1 = t2

\* C6: a paused monitor is given no worker and no sendAlert, and gets no
\* event and no alert
C6_PausedProducesNothing ==
  \A m \in Monitors :
    monitors[m].isPaused =>
      /\ \A t \in Ticks : worker[t][m].pc = "none" /\ alertProc[t][m].pc = "none"
      /\ EventsOf(m) = {}
      /\ \A i \in 1..Len(alerts) : alerts[i].monitorId # m

\* C6 witness: both firings are over, the paused monitor matched the rest of
\* the due-set query in each, and the other monitor got events and an alert
C6_Witness ==
  /\ \A t \in Ticks : tick[t].pc = "done"
  /\ \E m \in Monitors :
       /\ monitors[m].isPaused
       /\ monitors[m].frequency = BucketFrequency
       /\ monitors[m].updatedAt <= now - Window
  /\ Len(events) >= 2
  /\ Len(alerts) >= 1

Overturned(w, lastAvailability) ==
  /\ Answered(w)
  /\ w.type = "web"
  /\ w.lastUptimeStatus = lastAvailability
  /\ w.data.availability = "Down"
  /\ w.verify = "Up"

\* C8: latest event Up, agent Down, verifier Up: no event appended, no
\* endTime changed, no alert
C8_OverturnedUpWritesNothing ==
  \A t \in Ticks, m \in Monitors :
    Overturned(worker[t][m], "Up") =>
      /\ worker[t][m].appended = 0
      /\ worker[t][m].closed = 0
      /\ ~worker[t][m].alerted

\* C9: latest event Down, agent Down, verifier Up: the worker appends an Up
\* event confirmed by the verifier and closes the prior event, so it is never
\* at the update of updatedAt without having saved
C9_OverturnedDownAppendsUp ==
  \A t \in Ticks, m \in Monitors :
    Overturned(worker[t][m], "Down") =>
      /\ worker[t][m].save
      /\ worker[t][m].uptimeEvent.availability = "Up"
      /\ worker[t][m].uptimeEvent.confirmedByAgent
           = differentAgentUrl(tick[t].monitorUrlsFromDB, worker[t][m].selectedUrl)

\* C10: a worker that read no prior event and got an answer does not throw
C10_FirstEventCompletes ==
  [][\A t \in Ticks, m \in Monitors :
       (Answered(worker[t][m]) /\ worker[t][m].lastUptimeEvent = 0)
         => worker'[t][m].pc # "rejected"]_vars

\* C11: the step in which the primary agent and the alternate have both
\* failed writes no event and no alert, starts no sendAlert and leaves the
\* monitor as it was, so a monitor that was due stays due
C11_BothFailWritesNothing ==
  [][\A t \in Ticks, m \in Monitors :
       (/\ worker[t][m].pc = "primary"
        /\ worker'[t][m].pc = "fulfilled"
        /\ differentAgentUrl(tick[t].monitorUrlsFromDB, worker[t][m].selectedUrl) # NULL)
       => /\ events' = events
          /\ alerts' = alerts
          /\ alertProc' = alertProc
          /\ monitors'[m] = monitors[m]
          /\ (DueFilter(m, now - Window) => DueFilter(m, now - Window)')]_vars

\* C11 witness: the first firing is over, its only worker sent two probes
\* and returned without reaching the update of updatedAt
C11_Witness ==
  /\ tick[1].pc = "done"
  /\ tick[1].started = 1
  /\ tick[1].probes = 2
  /\ tick[1].bumped = {}
  /\ worker[1]["m1"].pc = "fulfilled"
  /\ tick[2].pc = "idle"
  /\ events = <<>>
  /\ alerts = <<>>
  /\ DueFilter("m1", now - Window)

\* C12: the exception of one worker leaves the other monitors of the firing
\* their probes, those of a later page included: a firing that has ended
\* after a worker threw leaves no other monitor unprobed that its next page
\* would have fetched (hasMoreMonitors set, the monitor still due, its worker
\* of this page over)
C12_ExceptionConfined ==
  \A t \in Ticks, k, m \in Monitors :
    (/\ k # m
     /\ tick[t].pc = "done"
     /\ worker[t][k].pc = "rejected")
    => ~ (/\ tick[t].hasMoreMonitors
          /\ worker[t][m].pc = "fulfilled"
          /\ m \notin tick[t].bumped
          /\ DueFilter(m, now - Window))

\* C13: a worker that holds a candidate and has a prior event to close does
\* not throw at the insert of the candidate, so it reaches the update of
\* updatedAt
C13_InsertFailureStillBumps ==
  [][\A t \in Ticks, m \in Monitors :
       (worker[t][m].pc = "saveEvent" /\ worker[t][m].lastUptimeEvent # 0)
         => worker'[t][m].pc # "rejected"]_vars

\* the agent whose response produced the candidate: response.config.url
Responder(w, urls) ==
  IF w.route = "primary" THEN w.selectedUrl ELSE differentAgentUrl(urls, w.selectedUrl)

\* C14: a verification probe is sent exactly when the candidate is adverse in
\* the field authoritative for the monitor's kind and an agent other than the
\* responding one is registered
C14_VerifyIffAdverse ==
  \A t \in Ticks, m \in Monitors :
    Answered(worker[t][m]) =>
      LET w == worker[t][m]
          urls == tick[t].monitorUrlsFromDB
      IN (w.verify # "none") <=>
           /\ AlertDue(w.type, Candidate(m, w.data, Responder(w, urls)))
           /\ \E i \in 1..Len(urls) : urls[i] # Responder(w, urls)

\* C15: the verification probe goes to an agent other than the one whose
\* response produced the candidate
C15_VerifierDiffers ==
  \A t \in Ticks, m \in Monitors :
    (Answered(worker[t][m]) /\ worker[t][m].verify # "none") =>
      differentAgentUrl(tick[t].monitorUrlsFromDB, worker[t][m].selectedUrl)
        # Responder(worker[t][m], tick[t].monitorUrlsFromDB)

\* C16: after an answered verification the candidate differs from the one
\* built from the response in availability (the verifier's, normalised) and
\* confirmedByAgent (the verifier's URL) only; after a failed verification,
\* or none, it does not differ at all
C16_VerificationFrame ==
  \A t \in Ticks, m \in Monitors :
    Answered(worker[t][m]) =>
      LET w == worker[t][m]
          urls == tick[t].monitorUrlsFromDB
          c == [Candidate(m, w.data, Responder(w, urls))
                  EXCEPT !.timestamp = w.uptimeEvent.timestamp]
      IN IF w.verify \in {"none", "error"}
         THEN w.uptimeEvent = c
         ELSE w.uptimeEvent =
                [c EXCEPT !.availability = IF w.verify = "Up" THEN "Up" ELSE "Down",
                          !.confirmedByAgent = differentAgentUrl(urls, w.selectedUrl)]

\* C16 witness: the primary reported Down, the verifier Up, and the candidate
\* carries the verifier's availability and URL
C16_Witness ==
  \E t \in Ticks, m \in Monitors :
    /\ Answered(worker[t][m])
    /\ worker[t][m].route = "primary"
    /\ worker[t][m].data.availability = "Down"
    /\ worker[t][m].verify = "Up"
    /\ worker[t][m].uptimeEvent.availability = "Up"
    /\ worker[t][m].uptimeEvent.confirmedByAgent # worker[t][m].selectedUrl

C18_NoOwnerNoAlert ==
  [][\A m \in Monitors :
       ~monitors[m].user =>
         /\ monitors'[m].lastAlertSentAt = monitors[m].lastAlertSentAt
         /\ \A i \in 1..Len(alerts') : i > Len(alerts) => alerts'[i].monitorId # m]_vars

\* C18 witness: the worker of a monitor without an owner got an adverse
\* final result, its sendAlert has returned, and nothing was written
C18_Witness ==
  \E t \in Ticks, m \in Monitors :
    /\ ~monitors[m].user
    /\ Answered(worker[t][m])
    /\ worker[t][m].alerted
    /\ alertProc[t][m].pc = "none"
    /\ alerts = <<>>

\* C19: a firing that starts after earlier firings are over, each having run
\* every worker it started to the update of updatedAt, selects no monitor
\* and starts no worker
C19_RerunIsNoOp ==
  [][\A t \in Ticks :
       (/\ tick[t].pc = "idle"
        /\ tick'[t].pc # "idle"
        /\ t > 1
        /\ \A s \in Ticks : s < t =>
              /\ tick[s].pc = "done"
              /\ tick[s].started > 0
              /\ Cardinality(tick[s].bumped) = tick[s].started)
       => /\ tick'[t].page = {}
          /\ tick'[t].started = 0
          /\ worker' = worker]_vars

\* C19 witness: the second firing is over without having started a worker,
\* after a first firing whose worker ran to the end
C19_Witness ==
  /\ tick[1].pc = "done"
  /\ tick[1].bumped = {"m1"}
  /\ tick[1].started = 1
  /\ tick[2].pc = "done"
  /\ tick[2].started = 0
  /\ tick[2].probes = 0

\* C20: at most pageSize workers of a firing are in flight
C20_AtMostPageSizeInFlight ==
  \A t \in Ticks : Cardinality({m \in Monitors : InFlight(t, m)}) <= pageSize

\* C21: every primary selection takes the agent at the shared index and
\* advances the index by one modulo the size of the pool, and no other step
\* changes the index: n consecutive selections are a rotation
C21_RoundRobin ==
  [][/\ \A t \in Ticks, m \in Monitors :
          (worker[t][m].pc = "findLast" /\ worker'[t][m].pc = "primary")
            => /\ worker'[t][m].selectedUrl = tick[t].monitorUrlsFromDB[currentUrlIndex + 1]
               /\ currentUrlIndex' = (currentUrlIndex + 1) % Len(tick[t].monitorUrlsFromDB)
     /\ (~ \E t \in Ticks, m \in Monitors :
            worker[t][m].pc = "findLast" /\ worker'[t][m].pc = "primary")
          => currentUrlIndex' = currentUrlIndex]_vars

\* C21 witness: two workers of one firing, running concurrently over a pool
\* of two agents, hold the two agents and the index is back at its start
C21_Witness ==
  \E t \in Ticks, m, k \in Monitors :
    /\ Len(agents) = 2
    /\ InFlight(t, m)
    /\ InFlight(t, k)
    /\ worker[t][m].selectedUrl = agents[1]
    /\ worker[t][k].selectedUrl = agents[2]
    /\ currentUrlIndex = 0

\* C22: with one registered agent a worker sends at most one probe; a
\* primary error ends the worker with no event, no alert and no change of the
\* monitor; a result is left unverified, confirmed by that agent, and is
\* inserted as it is
C22_SingleAgent ==
  [][Len(agents) = 1 =>
       \A t \in Ticks, m \in Monitors :
         /\ worker'[t][m].probes <= 1
         /\ tick'[t].probes <= tick'[t].started
         /\ Answered(worker'[t][m])
              => /\ worker'[t][m].verify = "none"
                 /\ worker'[t][m].uptimeEvent.confirmedByAgent = agents[1]
         /\ (worker[t][m].pc = "primary" /\ worker'[t][m].pc = "fulfilled")
              => /\ events' = events
                 /\ alerts' = alerts
                 /\ monitors' = monitors
         /\ (worker[t][m].pc = "saveEvent" /\ Len(events') > Len(events))
              => events'[Len(events')] = worker[t][m].uptimeEvent]_vars

\* C22 witness: with one agent, a Down result of a web monitor was inserted,
\* confirmed by that agent
C22_Witness ==
  /\ Len(agents) = 1
  /\ \E t \in Ticks : tick[t].probes = 1
  /\ \E i \in 1..Len(events) :
       /\ events[i].timestamp >= Window
       /\ events[i].type = "web"
       /\ events[i].availability = "Down"
       /\ events[i].confirmedByAgent = agents[1]

\* C23: when a worker that read a prior event inserts its new event, the
\* endTime of the prior event is already stored
C23_EndTimeBeforeInsert ==
  [][\A t \in Ticks, m \in Monitors :
       (/\ worker[t][m].pc = "saveEvent"
        /\ worker[t][m].lastUptimeEvent # 0
        /\ Len(events') > Len(events))
       => events[worker[t][m].lastUptimeEvent].endTime # NoDate]_vars

\* C24: a stored event changes only in its endTime, only once, and only at
\* the hands of the worker that appended the very next event of the monitor
C24_EndTimeSetOnce ==
  [][\A i \in 1..Len(events) :
       /\ events'[i] = [events[i] EXCEPT !.endTime = events'[i].endTime]
       /\ \A t \in Ticks, m \in Monitors :
            (/\ worker[t][m].pc = "saveLast"
             /\ worker'[t][m].pc # "saveLast"
             /\ worker[t][m].lastUptimeEvent = i)
            => /\ events[i].endTime = NoDate
               /\ Consecutive(m, i, worker[t][m].appended)]_vars

\* C25: a worker whose monitor is of another kind than the latest stored
\* event (the kind was changed since) decides to append, whatever it got
C25_KindChangeAppends ==
  \A t \in Ticks, m \in Monitors :
    (/\ Answered(worker[t][m])
     /\ worker[t][m].lastUptimeEvent # 0
     /\ events[worker[t][m].lastUptimeEvent].type # worker[t][m].type)
    => worker[t][m].save

\* C26: every stored monitor has its frequency among the buckets and its
\* alertFrequency in the enum
C26_FrequenciesInEnum ==
  \A m \in Monitors :
    /\ monitors[m].frequency \in Frequencies
    /\ monitors[m].alertFrequency \in AlertFrequencies

\* C27: a rolling uptime percentage that was returned lies in [0, 100]
C27_UptimeInRange ==
  (request.op \in {"monitorsAll", "monitoringUptime"} /\ request.pc = "none")
  => (0 <= request.result /\ request.result <= 100 * 100)

\* C28: a rolling uptime that was returned is 100 when the window holds no
\* event of the monitor, and otherwise was computed from the up time that
\* counts the interval before an event, and the final interval, iff the
\* field authoritative for the monitor's kind is positive
C28_UptimeCountsAuthoritative ==
  (request.op \in {"monitorsAll", "monitoringUptime"} /\ request.pc = "none")
  => LET window == InWindow(request.monitor, request.startDate)
         Up == {i \in window : IsPositive(monitors[request.monitor].type, events[i])}
     IN IF window = {} THEN request.result = 100 * 100
        ELSE /\ request.found = window
             /\ request.totalUpTime =
                  TotalUpTime(window, request.startDate, request.currentTime, Up)

\* C29: the counts of a stats answer are those of the classes Paused (the
\* monitor is paused), Up (not paused, and the field of its latest event
\* authoritative for its kind is positive) and Down (the rest), and sum to
\* the total
C29_StatsByAuthoritative ==
  request.op = "stats"
  => LET userMonitors == {m \in Monitors : monitors[m].user}
         paused == {m \in userMonitors : monitors[m].isPaused}
         up == {m \in userMonitors \ paused :
                  \E i \in LatestEvents(m) :
                    i # 0 /\ IsPositive(monitors[m].type, events[i])}
     IN /\ request.pausedMonitors = Cardinality(paused)
        /\ request.upMonitors = Cardinality(up)
        /\ request.downMonitors = Cardinality((userMonitors \ paused) \ up)
        /\ request.upMonitors + request.downMonitors + request.pausedMonitors
             = request.totalMonitors

\* C30: cancelling starts only once the connection is established, a
\* scheduler processes jobs only once the five cancels are done and no
\* earlier job is left, jobs are scheduled only once the five schedulers
\* are started, a tick has run only after all that, and after a failed
\* connection nothing is cancelled, started, scheduled or run
C30_StartupOrder ==
  /\ server.cancelled > 0 => server.connected
  /\ server.processing > 0 => (server.cancelled = NumAgendas /\ server.stale = {})
  /\ server.jobs # {} => server.processing = NumAgendas
  /\ \A t \in Ticks :
       tick[t].pc # "idle" =>
         /\ server.connected
         /\ server.cancelled = NumAgendas
         /\ server.stale = {}
         /\ server.processing = NumAgendas
  /\ server.pc = "failed" =>
       /\ ~server.connected /\ server.cancelled = 0 /\ server.processing = 0
       /\ server.jobs = {}
       /\ \A t \in Ticks : tick[t].pc = "idle"

\* a tick has run in a process that found jobs of an earlier run and whose
\* job collection now holds the five new ones
C30_Witness ==
  /\ server.pc = "running"
  /\ server.jobs = JobNames
  /\ tick[1].pc = "done"
  /\ Len(events) > 1

\* C31: the page loop of a tick terminates: every iteration after the first
\* finds a due set strictly smaller than the one before, so that the
\* iterations are bounded by the number of due monitors
C31_LoopProgress ==
  [][\A t \in Ticks :
       (/\ tick[t].pc = "await"
        /\ tick'[t].pc = "await"
        /\ tick'[t].started # tick[t].started)
       => (tick'[t].page \subseteq tick[t].page /\ tick'[t].page # tick[t].page)]_vars

\* C32: while a monitor is stored as paused, no step appends an event or
\* an alert for it (a worker that was in flight when the pause was
\* persisted writes neither)
C32_PausedNotWritten ==
  [][\A m \in Monitors :
       monitors[m].isPaused =>
         /\ (Len(events') > Len(events) => events'[Len(events')].monitor # m)
         /\ (Len(alerts') > Len(alerts) => alerts'[Len(alerts')].monitorId # m)]_vars

\* C37: once a pause request has been answered the monitor is paused, and
\* once a resume request has been answered it is not, whatever it was
\* before
C37_PauseSetsResumeClears ==
  (request.op \in PauseOps /\ request.pc = "none")
  => (monitors[request.monitor].isPaused <=> request.op # "resume")

\* C33: when a worker has finished and an alert of its monitor was written
\* (the only writer of the monitor's alerts is that worker), the latest
\* stored event of the monitor is adverse for the monitor's kind
C33_AlertImpliesAdverse ==
  \A t \in Ticks, m \in Monitors :
    (/\ worker[t][m].pc \in {"fulfilled", "rejected"}
     /\ \E i \in 1..Len(alerts) : alerts[i].monitorId = m)
    => \A i \in LatestEvents(m) : i # 0 /\ ~IsPositive(monitors[m].type, events[i])

\* C34: whenever a worker is about to make its primary selection, the
\* shared index is within the pool snapshot its tick read
C34_IndexInSnapshot ==
  \A t \in Ticks, m \in Monitors :
    worker[t][m].pc = "findLast" => currentUrlIndex < Len(tick[t].monitorUrlsFromDB)

\* C35: the firing of the next full hour starts a worker for every
\* unpaused monitor of the bucket whose worker of the firing of this hour
\* completed and updated updatedAt
C35_SelectedEveryHour ==
  \A m \in Monitors :
    (/\ tick[2].pc # "idle"
     /\ m \in tick[1].bumped
     /\ ~monitors[m].isPaused
     /\ monitors[m].frequency = BucketFrequency)
    => worker[2][m].pc # "none"

\* C36: once the deletion of a monitor has been answered, no stored event
\* references the monitor
C36_NoEventAfterDelete ==
  (/\ request.op = "delete"
   /\ request.pc = "none"
   /\ monitors[request.monitor].removed)
  => EventsOf(request.monitor) = {}

\* C38: every token was issued to a request that carried a code, the code
\* had been issued to the user, and no more tokens were issued on a code
\* than the times the code was issued
C38_TokenNeedsFreshCode ==
  /\ \A i \in 1..Len(account.tokens) : account.tokens[i] \in Codes
  /\ \A c \in Codes :
       Cardinality({i \in 1..Len(account.tokens) : account.tokens[i] = c}) <= account.issued[c]

====
